---------------------------- MODULE Spec2Model ----------------------------
(***************************************************************************)
(* Heightmap filters of THREE.Terrain (src/src/filters.ts).                *)
(*                                                                         *)
(* A grid g is the vertex array: a function from the keys 0..l-1 to the z  *)
(* of each vertex, row-major with xl = widthSegments+1 columns.            *)
(*                                                                         *)
(* Numbers are JavaScript numbers without rounding: a number is a pair     *)
(* <<n, d>> in lowest terms with d >= 0.  d > 0 is the rational n/d;       *)
(* <<1,0>> is Infinity, <<-1,0>> is -Infinity and <<0,0>> is NaN, with the *)
(* IEEE rules for them (NaN compares false with everything, Infinity -     *)
(* Infinity is NaN, x/0 is +-Infinity, 0/0 is NaN).  `undefined` is <<>>.  *)
(***************************************************************************)
EXTENDS Integers, Sequences, FiniteSets

VARIABLES
  g,               \* the vertex array's z values, key -> number
  widthSegments,   \* options.widthSegments
  heightSegments,  \* options.heightSegments
  pre,             \* g as it was when the current call was made
  mid,             \* g as Edges hands it to applyTerrainClamp (line 111)
  call,            \* the filter called and its arguments
  pc               \* "ready" | "returned" | "thrown"

vars == <<g, widthSegments, heightSegments, pre, mid, call, pc>>

\* ------------------------------------------------------------- bounds
MaxSeg == 2        \* widthSegments, heightSegments range over 0..MaxSeg
MaxZ == 2          \* initial elevations range over 0..MaxZ
MaxHeight == 2     \* options.minHeight/maxHeight range over -1..MaxHeight
MaxLevels == 3     \* levels ranges over 1..MaxLevels
MaxWeight == 2     \* weight ranges over 0..MaxWeight
MaxDistance == 2   \* distance ranges over 0..MaxDistance
MaxExtent == 2    \* options.width, options.height range over 1..MaxExtent
MaxMultiplier == 2 \* multiplier ranges over 0..MaxMultiplier
SqrtScale == 10    \* Math.sqrt is kept to multiples of 1/SqrtScale

\* ------------------------------------------------------------ numbers
NaN == <<0, 0>>
Infinity == <<1, 0>>
NegInfinity == <<-1, 0>>
undefined == <<>>

Abs(x) == IF x < 0 THEN -x ELSE x
Sgn(x) == IF x < 0 THEN -1 ELSE IF x > 0 THEN 1 ELSE 0

RECURSIVE GCD(_, _)
GCD(a, b) == IF b = 0 THEN a ELSE GCD(b, a % b)

\* the number n/d, in lowest terms
Q(n, d) ==
  IF d = 0 THEN <<Sgn(n), 0>>
  ELSE LET k == GCD(Abs(n), Abs(d))
           s == IF d < 0 THEN -1 ELSE 1
       IN  <<(s * n) \div k, (s * d) \div k>>

Num(k) == <<k, 1>>

IsNumber(a) == Len(a) = 2          \* typeof a === 'number'
IsNaN(a) == a = NaN
IsFinite(a) == a[2] # 0

Neg(a) == <<-a[1], a[2]>>

Add(a, b) ==
  IF IsNaN(a) \/ IsNaN(b) THEN NaN
  ELSE IF ~IsFinite(a) /\ ~IsFinite(b) THEN (IF a = b THEN a ELSE NaN)
  ELSE IF ~IsFinite(a) THEN a
  ELSE IF ~IsFinite(b) THEN b
  ELSE LET k == GCD(a[2], b[2])
       IN  Q(a[1] * (b[2] \div k) + b[1] * (a[2] \div k), (a[2] \div k) * b[2])

Sub(a, b) == Add(a, Neg(b))

Mul(a, b) ==
  IF ~IsFinite(a) \/ ~IsFinite(b) \/ a[1] = 0 \/ b[1] = 0
  THEN Q(a[1] * b[1], a[2] * b[2])
  ELSE LET k == GCD(Abs(a[1]), b[2])
           h == GCD(Abs(b[1]), a[2])
       IN  Q((a[1] \div k) * (b[1] \div h), (a[2] \div h) * (b[2] \div k))

Recip(a) ==
  IF IsNaN(a) THEN NaN
  ELSE IF ~IsFinite(a) THEN Num(0)
  ELSE IF a[1] = 0 THEN Infinity
  ELSE IF a[1] > 0 THEN <<a[2], a[1]>>
  ELSE <<-a[2], -a[1]>>

Div(a, b) == Mul(a, Recip(b))

\* a < b
Lt(a, b) ==
  /\ ~IsNaN(a)
  /\ ~IsNaN(b)
  /\ IF ~IsFinite(a) /\ ~IsFinite(b) THEN a[1] < b[1]
     ELSE LET k == GCD(a[2], b[2])
          IN  a[1] * (b[2] \div k) < b[1] * (a[2] \div k)

\* a > b
Gt(a, b) == Lt(b, a)

\* a <= b
Le(a, b) == ~IsNaN(a) /\ ~IsNaN(b) /\ ~Lt(b, a)

\* a >= b
Ge(a, b) == Le(b, a)

MathMax(a, b) ==
  IF IsNaN(a) \/ IsNaN(b) THEN NaN ELSE IF Lt(a, b) THEN b ELSE a

MathMin(a, b) ==
  IF IsNaN(a) \/ IsNaN(b) THEN NaN ELSE IF Lt(b, a) THEN b ELSE a

MathFloor(a) == IF IsFinite(a) THEN Num(a[1] \div a[2]) ELSE a

\* x || 1 : 0 and NaN are falsy
OrOne(x) == IF IsNaN(x) \/ x = Num(0) THEN Num(1) ELSE x

\* ------------------------------------------------------------ easings
\* core.ts (not part of the sources at hand): Linear is the identity,
\* EaseInOut the smoothstep curve.  EaseIn stands for a caller's own curve.
Linear(x) == x

EaseIn(x) == Mul(x, x)

EaseInOut(x) == Mul(Mul(x, x), Sub(Num(3), Mul(Num(2), x)))

Easings == {"Linear", "EaseIn", "EaseInOut"}

ApplyEasing(e, x) ==
  CASE e = "Linear" -> Linear(x)
    [] e = "EaseIn" -> EaseIn(x)
    [] e = "EaseInOut" -> EaseInOut(x)

\* -------------------------------------------------------------- grids
\* the grids of l cells in which at most two cells differ from the rest
Grids(l) ==
  { [k \in 0..(l - 1) |->
       IF k = c1 THEN Num(z1) ELSE IF k = c2 THEN Num(z2) ELSE Num(b)] :
    b \in 0..MaxZ, z1 \in 0..MaxZ, z2 \in 0..MaxZ,
    c1 \in 0..(l - 1), c2 \in 0..(l - 1) }

TypeOK ==
  /\ widthSegments \in 0..MaxSeg
  /\ heightSegments \in 0..MaxSeg
  /\ DOMAIN g = 0..((widthSegments + 1) * (heightSegments + 1) - 1)
  /\ DOMAIN pre = DOMAIN g
  /\ pc \in {"ready", "returned", "thrown"}

Init ==
  /\ widthSegments \in 0..MaxSeg
  /\ heightSegments \in 0..MaxSeg
  /\ g \in Grids((widthSegments + 1) * (heightSegments + 1))
  /\ pre = g
  /\ mid = g
  /\ call = [op |-> "none"]
  /\ pc = "ready"

\* -------------------------------------------------- applyTerrainClamp
RECURSIVE ScanMin(_, _, _)
ScanMin(gr, i, min) ==
  IF i \notin DOMAIN gr THEN min
  ELSE ScanMin(gr, i + 1, IF Lt(gr[i], min) THEN gr[i] ELSE min)

RECURSIVE ScanMax(_, _, _)
ScanMax(gr, i, max) ==
  IF i \notin DOMAIN gr THEN max
  ELSE ScanMax(gr, i + 1, IF Gt(gr[i], max) THEN gr[i] ELSE max)

GridMin(gr) == ScanMin(gr, 0, Infinity)
GridMax(gr) == ScanMax(gr, 0, NegInfinity)

\* lines 27-36: the locals of applyTerrainClamp
ClampLocals(gr, options) ==
  LET min == GridMin(gr)
      max == GridMax(gr)
      actualRange == Sub(max, min)
      optMax == IF ~IsNumber(options.maxHeight) THEN max ELSE options.maxHeight
      optMin == IF ~IsNumber(options.minHeight) THEN min ELSE options.minHeight
      targetMax0 == IF options.stretch THEN optMax
                    ELSE (IF Lt(max, optMax) THEN max ELSE optMax)
      targetMin == IF options.stretch THEN optMin
                   ELSE (IF Gt(min, optMin) THEN min ELSE optMin)
      fallback == Lt(targetMax0, targetMin)
      targetMax == IF fallback THEN optMax ELSE targetMax0
  IN  [min |-> min, max |-> max, actualRange |-> actualRange,
       optMax |-> optMax, optMin |-> optMin,
       targetMax |-> targetMax, targetMin |-> targetMin,
       range |-> Sub(targetMax, targetMin)]

\* ClampCell without the subtraction of min: z / actualRange
ClampCellNoMin(z, c, easing) ==
  Add(Mul(ApplyEasing(easing, Div(z, c.actualRange)), c.range), c.optMin)

\* line 38: the new z of one vertex
ClampCell(z, c, easing) ==
  Add(Mul(ApplyEasing(easing, Div(Sub(z, c.min), c.actualRange)), c.range),
      c.optMin)

\* options.easing || Linear
EasingOr(e, dflt) == IF e = "undefined" THEN dflt ELSE e

applyTerrainClamp(gr, options) ==
  LET c == ClampLocals(gr, options)
      easing == EasingOr(options.easing, "Linear")
  IN  [k \in DOMAIN gr |-> ClampCell(gr[k], c, easing)]

HeightArgs == {undefined} \cup {Num(h) : h \in (-1)..MaxHeight}

CallClamp ==
  /\ pc = "ready"
  /\ \E stretch \in BOOLEAN, minHeight \in HeightArgs, maxHeight \in HeightArgs,
        easing \in Easings \cup {"undefined"} :
       LET options == [maxHeight |-> maxHeight, minHeight |-> minHeight,
                       easing |-> easing, stretch |-> stretch]
       IN  /\ g' = applyTerrainClamp(g, options)
           /\ call' = [op |-> "applyTerrainClamp", options |-> options]
  /\ pre' = g
  /\ pc' = "returned"
  /\ UNCHANGED <<widthSegments, heightSegments, mid>>

NextClamp == CallClamp

\* applyTerrainClamp never looks at the grid's shape: one row of vertices
InitClamp ==
  /\ widthSegments \in 0..MaxSeg
  /\ heightSegments = 0
  /\ g \in Grids(widthSegments + 1)
  /\ pre = g
  /\ mid = g
  /\ call = [op |-> "none"]
  /\ pc = "ready"

SpecClamp == InitClamp /\ [][NextClamp]_vars


\* ------------------------------------------- claims on applyTerrainClamp
ClampReturned == pc = "returned" /\ call.op = "applyTerrainClamp"

NotFlat(gr) == GridMin(gr) # GridMax(gr)

InClosedRange(z, a, b) == Le(MathMin(a, b), z) /\ Le(z, MathMax(a, b))

\* C1: after applyTerrainClamp with stretch=true, numeric minHeight and
\* maxHeight, an easing with values in [0,1] and a grid whose elevations are
\* not all equal, every z lies between min(minHeight,maxHeight) and
\* max(minHeight,maxHeight).
C1_StretchWithinBounds ==
  (/\ ClampReturned
   /\ call.options.stretch
   /\ IsNumber(call.options.minHeight)
   /\ IsNumber(call.options.maxHeight)
   /\ NotFlat(pre))
  => \A k \in DOMAIN g :
       InClosedRange(g[k], call.options.minHeight, call.options.maxHeight)

\* a stretch call with minHeight > maxHeight and a curved easing that put
\* some vertex strictly inside the range
C1_Witness ==
  /\ ClampReturned
  /\ call.options.stretch
  /\ IsNumber(call.options.minHeight)
  /\ IsNumber(call.options.maxHeight)
  /\ NotFlat(pre)
  /\ Lt(call.options.maxHeight, call.options.minHeight)
  /\ call.options.easing = "EaseInOut"
  /\ \E k \in DOMAIN g : /\ Lt(call.options.maxHeight, g[k])
                         /\ Lt(g[k], call.options.minHeight)
                         /\ g[k] # pre[k]

\* C2: after applyTerrainClamp with stretch=false on a grid whose elevations
\* are not all equal, every z lies between targetMin and targetMax (the
\* target bounds clamped to the discovered extremes).
C2_NoStretchWithinTarget ==
  (/\ ClampReturned
   /\ ~call.options.stretch
   /\ NotFlat(pre))
  => LET c == ClampLocals(pre, call.options)
     IN  \A k \in DOMAIN g : InClosedRange(g[k], c.targetMin, c.targetMax)

\* C3 as claimed: with stretch=true, a grid that is not flat, bounds
\* minHeight # maxHeight and any easing, a second call with the same options
\* leaves the grid as the first call left it.
C3_IdempotentAnyEasing ==
  (/\ ClampReturned
   /\ call.options.stretch
   /\ IsNumber(call.options.minHeight)
   /\ IsNumber(call.options.maxHeight)
   /\ call.options.minHeight # call.options.maxHeight
   /\ NotFlat(pre))
  => applyTerrainClamp(g, call.options) = g

\* C3 as amended: with stretch=true, a grid that is not flat, bounds
\* minHeight < maxHeight and the identity easing (Linear, the default), a
\* second call with the same options leaves the grid as the first call left
\* it.
C3_IdempotentLinear ==
  (/\ ClampReturned
   /\ call.options.stretch
   /\ IsNumber(call.options.minHeight)
   /\ IsNumber(call.options.maxHeight)
   /\ Lt(call.options.minHeight, call.options.maxHeight)
   /\ EasingOr(call.options.easing, "Linear") = "Linear"
   /\ NotFlat(pre))
  => applyTerrainClamp(g, call.options) = g

\* a Linear stretch call that moved a vertex to a value strictly inside the
\* range, so that the second call has something to rescale
C3_Witness ==
  /\ ClampReturned
  /\ call.options.stretch
  /\ IsNumber(call.options.minHeight)
  /\ IsNumber(call.options.maxHeight)
  /\ Lt(call.options.minHeight, call.options.maxHeight)
  /\ EasingOr(call.options.easing, "Linear") = "Linear"
  /\ NotFlat(pre)
  /\ \E k \in DOMAIN g : /\ g[k] # pre[k]
                         /\ Lt(call.options.minHeight, g[k])
                         /\ Lt(g[k], call.options.maxHeight)

\* C4: applyTerrainClamp on a grid whose elevations are all equal ends in an
\* error and changes no elevation.
C4_FlatGridIsAnError ==
  (/\ pc # "ready"
   /\ call.op = "applyTerrainClamp"
   /\ ~NotFlat(pre))
  => (pc = "thrown" /\ g = pre)


\* --------------------------------------------------- applyTerrainStep
\* heights.sort(function (a, b) { return a - b; }) -- insertion into an
\* ascending sequence, equal values kept in order
RECURSIVE InsertAsc(_, _)
InsertAsc(sorted, z) ==
  IF sorted = <<>> THEN <<z>>
  ELSE IF Lt(z, Head(sorted)) THEN <<z>> \o sorted
  ELSE <<Head(sorted)>> \o InsertAsc(Tail(sorted), z)

RECURSIVE SortHeights(_, _)
SortHeights(gr, i) ==
  IF i \notin DOMAIN gr THEN <<>>
  ELSE InsertAsc(SortHeights(gr, i + 1), gr[i])

RECURSIVE SumSeq(_)
SumSeq(subset) ==
  IF subset = <<>> THEN Num(0) ELSE Add(Head(subset), SumSeq(Tail(subset)))

\* Math.floor(Math.pow(l * 0.5, 0.25)): the n with n^4 <= l/2 < (n+1)^4
DefaultLevels(l) ==
  CHOOSE n \in 0..l :
    /\ 2 * n * n * n * n <= l
    /\ l < 2 * (n + 1) * (n + 1) * (n + 1) * (n + 1)

\* heights.slice(from, to), 0-based, to exclusive, cut at the array's end
Slice(heights, from, to) ==
  LET hi == IF to < Len(heights) THEN to ELSE Len(heights)
  IN  IF from >= hi THEN <<>> ELSE SubSeq(heights, from + 1, hi)

\* lines 324-334: bucket i of the sorted heights
Bucket(heights, inc, i) ==
  LET subset == Slice(heights, i * inc, (i + 1) * inc)
      bl == Len(subset)
  IN  [min |-> IF bl = 0 THEN undefined ELSE subset[1],
       max |-> IF bl = 0 THEN undefined ELSE subset[bl],
       avg |-> Div(SumSeq(subset), Num(bl))]

\* line 341: startHeight >= bucket.min && startHeight <= bucket.max
InBucket(startHeight, b) ==
  /\ IsNumber(b.min)
  /\ IsNumber(b.max)
  /\ Ge(startHeight, b.min)
  /\ Le(startHeight, b.max)

\* lines 339-345: the new z of a vertex, the first matching bucket's avg
RECURSIVE StepCell(_, _, _, _)
StepCell(startHeight, buckets, j, levels) ==
  IF j >= levels THEN startHeight
  ELSE IF InBucket(startHeight, buckets[j]) THEN buckets[j].avg
  ELSE StepCell(startHeight, buckets, j + 1, levels)

applyTerrainStep(gr, levelsArg) ==
  LET l == Cardinality(DOMAIN gr)
      levels == IF ~IsNumber(levelsArg) THEN DefaultLevels(l) ELSE levelsArg[1]
  IN  IF levels <= 0 THEN gr
      ELSE LET inc == l \div levels
               heights == SortHeights(gr, 0)
               buckets == [i \in 0..(levels - 1) |-> Bucket(heights, inc, i)]
           IN  [k \in DOMAIN gr |-> StepCell(gr[k], buckets, 0, levels)]

CallStep ==
  /\ pc = "ready"
  /\ \E levels \in {undefined} \cup {Num(k) : k \in 1..MaxLevels} :
       /\ g' = applyTerrainStep(g, levels)
       /\ call' = [op |-> "applyTerrainStep", levels |-> levels]
  /\ pre' = g
  /\ pc' = "returned"
  /\ UNCHANGED <<widthSegments, heightSegments, mid>>

NextStep == CallStep

SpecStep == Init /\ [][NextStep]_vars

\* C5: after applyTerrainStep(g, k) with an integer k > 0 the grid holds at
\* most k distinct elevations.
C5_AtMostLevelsValues ==
  (/\ pc = "returned"
   /\ call.op = "applyTerrainStep"
   /\ IsNumber(call.levels))
  => Cardinality({g[k] : k \in DOMAIN g}) <= call.levels[1]


\* ------------------------------------------------ the 3x3 neighbourhood
\* the (n, m) offsets in the order the nested loops visit them
Offsets ==
  << <<-1, -1>>, <<-1, 0>>, <<-1, 1>>,
     << 0, -1>>, << 0, 0>>, << 0, 1>>,
     << 1, -1>>, << 1, 0>>, << 1, 1>> >>

\* NeighborOk without the column test: a neighbour past a row's end is the
\* first vertex of the next row
NeighborOkWrap(gr, xl, yl, i, j, n, m) ==
  /\ ((j + n) * xl + i + m) \in DOMAIN gr
  /\ j + n >= 0
  /\ j + n < yl

\* lines 194, 228: typeof g[key] !== 'undefined' && i + m >= 0 && j + n >= 0
\* && i + m < xl && j + n < yl
NeighborOk(gr, xl, yl, i, j, n, m) ==
  /\ ((j + n) * xl + i + m) \in DOMAIN gr
  /\ i + m >= 0
  /\ j + n >= 0
  /\ i + m < xl
  /\ j + n < yl

\* the keys the loops over n and m accept for vertex (i, j), in loop order
RECURSIVE NeighborKeysFrom(_, _, _, _, _, _)
NeighborKeysFrom(gr, xl, yl, i, j, o) ==
  IF o > Len(Offsets) THEN <<>>
  ELSE LET n == Offsets[o][1]
           m == Offsets[o][2]
           rest == NeighborKeysFrom(gr, xl, yl, i, j, o + 1)
       IN  IF NeighborOk(gr, xl, yl, i, j, n, m)
           THEN <<(j + n) * xl + i + m>> \o rest
           ELSE rest

NeighborKeys(gr, xl, yl, i, j) == NeighborKeysFrom(gr, xl, yl, i, j, 1)

\* ------------------------------------------------- applyTerrainSmooth
RECURSIVE SumKeys(_, _)
SumKeys(gr, keys) ==
  IF keys = <<>> THEN Num(0)
  ELSE Add(gr[Head(keys)], SumKeys(gr, Tail(keys)))

\* lines 189-200: heightmap[j * xl + i]
SmoothMean(gr, xl, yl, i, j) ==
  LET keys == NeighborKeys(gr, xl, yl, i, j)
  IN  Div(SumKeys(gr, keys), Num(Len(keys)))

applyTerrainSmooth(gr, ws, hs, weightArg) ==
  LET xl == ws + 1
      yl == hs + 1
      weight == IF IsNumber(weightArg) THEN weightArg ELSE Num(0)
      heightmap == [k \in DOMAIN gr |-> SmoothMean(gr, xl, yl, k % xl, k \div xl)]
      w == Div(Num(1), Add(Num(1), weight))
  IN  [k \in DOMAIN gr |-> Mul(Add(heightmap[k], Mul(gr[k], weight)), w)]

CallSmooth ==
  /\ pc = "ready"
  /\ \E weight \in {undefined} \cup {Num(k) : k \in 0..MaxWeight} :
       /\ g' = applyTerrainSmooth(g, widthSegments, heightSegments, weight)
       /\ call' = [op |-> "applyTerrainSmooth", weight |-> weight]
  /\ pre' = g
  /\ pc' = "returned"
  /\ UNCHANGED <<widthSegments, heightSegments, mid>>

NextSmooth == CallSmooth

SpecSmooth == Init /\ [][NextSmooth]_vars

\* the vertices of the grid within one column and one row of (col, row)
Around(xl, yl, col, row) ==
  { cr \in (0..(xl - 1)) \X (0..(yl - 1)) :
      /\ cr[1] - col \in {-1, 0, 1}
      /\ cr[2] - row \in {-1, 0, 1} }

RECURSIVE SumOver(_, _, _)
SumOver(gr, xl, cells) ==
  IF cells = {} THEN Num(0)
  ELSE LET cr == CHOOSE x \in cells : TRUE
       IN  Add(gr[cr[2] * xl + cr[1]], SumOver(gr, xl, cells \ {cr}))

MeanAround(gr, xl, yl, col, row) ==
  LET cells == Around(xl, yl, col, row)
  IN  Div(SumOver(gr, xl, cells), Num(Cardinality(cells)))

\* C10: after applyTerrainSmooth every vertex (col, row) holds
\* (M + z * weight) / (1 + weight), z its elevation before the call and M the
\* mean of the pre-call elevations of the vertices of its 3x3 neighbourhood
\* that are inside the grid.
C10_SmoothFromPreCallValues ==
  (pc = "returned" /\ call.op = "applyTerrainSmooth")
  => LET xl == widthSegments + 1
         yl == heightSegments + 1
         weight == IF IsNumber(call.weight) THEN call.weight ELSE Num(0)
     IN  \A col \in 0..(xl - 1), row \in 0..(yl - 1) :
           g[row * xl + col] =
             Div(Add(MeanAround(pre, xl, yl, col, row),
                     Mul(pre[row * xl + col], weight)),
                 Add(Num(1), weight))

\* a weighted call on a grid of at least 3x2 vertices that changed the last
\* vertex of the first row, which now differs from the first vertex of the
\* second row (the vertex a wraparound would take for its neighbour)
C10_Witness ==
  /\ pc = "returned"
  /\ call.op = "applyTerrainSmooth"
  /\ IsNumber(call.weight)
  /\ call.weight # Num(0)
  /\ widthSegments >= 2
  /\ heightSegments >= 1
  /\ g[widthSegments] # pre[widthSegments]
  /\ g[widthSegments] # g[widthSegments + 1]


\* -------------------------------------------------------- SmoothMedian
\* neighborValues[a] for a key a: the array is indexed by key here, though
\* it was filled by position (lines 218-220, 229-230)
NeighborValueAt(neighborValues, a) ==
  IF a < Len(neighborValues) THEN neighborValues[a + 1] ELSE undefined

\* sortByValue(a, b), with the NaN of an undefined operand read as +0, as
\* Array.prototype.sort reads it
SortByValue(neighborValues, a, b) ==
  LET va == NeighborValueAt(neighborValues, a)
      vb == NeighborValueAt(neighborValues, b)
      d == IF IsNumber(va) /\ IsNumber(vb) THEN Sub(va, vb) ELSE NaN
  IN  IF IsNaN(d) THEN Num(0) ELSE d

\* the comparator orders the keys consistently (ECMAScript's "consistent
\* comparator": comparing equal is transitive; a - b makes the rest hold)
ConsistentComparator(neighborValues, keys) ==
  LET S == {keys[x] : x \in DOMAIN keys}
      Same(a, b) == SortByValue(neighborValues, a, b) = Num(0)
  IN  \A a \in S, b \in S, c \in S : (Same(a, b) /\ Same(b, c)) => Same(a, c)

\* a stable sort of the keys under a consistent comparator
RECURSIVE InsertKey(_, _, _)
InsertKey(neighborValues, sorted, a) ==
  IF sorted = <<>> THEN <<a>>
  ELSE IF Lt(SortByValue(neighborValues, a, Head(sorted)), Num(0))
       THEN <<a>> \o sorted
       ELSE <<Head(sorted)>> \o InsertKey(neighborValues, Tail(sorted), a)

RECURSIVE SortKeys(_, _)
SortKeys(neighborValues, keys) ==
  IF keys = <<>> THEN <<>>
  ELSE InsertKey(neighborValues,
                 SortKeys(neighborValues, SubSeq(keys, 1, Len(keys) - 1)),
                 keys[Len(keys)])

\* lines 235-242: the median read off the sorted keys
MedianOfSorted(gr, sortedKeys) ==
  LET halfKey == Len(sortedKeys) \div 2
  IN  IF Len(sortedKeys) % 2 = 1 THEN gr[sortedKeys[halfKey + 1]]
      ELSE Mul(Add(gr[sortedKeys[halfKey]], gr[sortedKeys[halfKey + 1]]),
               Q(1, 2))

\* The values heightmap[j * xl + i] can take.  Under a consistent comparator
\* the sort is the stable sort; under an inconsistent one the order is
\* implementation-defined, so any key may end in the middle (an odd count)
\* and any two keys in the two central places (an even count).
MedianOutcomes(gr, xl, yl, i, j) ==
  LET keys == NeighborKeys(gr, xl, yl, i, j)
      neighborValues == [x \in DOMAIN keys |-> gr[keys[x]]]
      S == {keys[x] : x \in DOMAIN keys}
  IN  IF ConsistentComparator(neighborValues, keys)
      THEN {MedianOfSorted(gr, SortKeys(neighborValues, keys))}
      ELSE IF Len(keys) % 2 = 1 THEN {gr[a] : a \in S}
      ELSE {Mul(Add(gr[ab[1]], gr[ab[2]]), Q(1, 2)) :
              ab \in {x \in S \X S : x[1] # x[2]}}

\* the heightmaps that take one of its outcomes at every key from k on
RECURSIVE HeightmapsFrom(_, _, _, _)
HeightmapsFrom(gr, xl, yl, k) ==
  IF k \notin DOMAIN gr THEN {<<>>}
  ELSE {<<z>> \o rest : z \in MedianOutcomes(gr, xl, yl, k % xl, k \div xl),
                        rest \in HeightmapsFrom(gr, xl, yl, k + 1)}

\* the grids SmoothMedian can leave
SmoothMedian(gr, ws, hs) ==
  {[k \in DOMAIN gr |-> heightmap[k + 1]] :
     heightmap \in HeightmapsFrom(gr, ws + 1, hs + 1, 0)}

CallSmoothMedian ==
  /\ pc = "ready"
  /\ g' \in SmoothMedian(g, widthSegments, heightSegments)
  /\ call' = [op |-> "SmoothMedian"]
  /\ pre' = g
  /\ pc' = "returned"
  /\ UNCHANGED <<widthSegments, heightSegments, mid>>

NextMedian == CallSmoothMedian

SpecMedian == Init /\ [][NextMedian]_vars

\* the elevations of a set of vertices, ascending
RECURSIVE Ascending(_, _, _)
Ascending(gr, xl, cells) ==
  IF cells = {} THEN <<>>
  ELSE LET cr == CHOOSE x \in cells :
                   \A y \in cells : Le(gr[x[2] * xl + x[1]], gr[y[2] * xl + y[1]])
       IN  <<gr[cr[2] * xl + cr[1]]>> \o Ascending(gr, xl, cells \ {cr})

MedianAround(gr, xl, yl, col, row) ==
  LET sorted == Ascending(gr, xl, Around(xl, yl, col, row))
      half == Len(sorted) \div 2
  IN  IF Len(sorted) % 2 = 1 THEN sorted[half + 1]
      ELSE Div(Add(sorted[half], sorted[half + 1]), Num(2))

\* C6: after SmoothMedian every vertex (col, row) holds the median of the
\* pre-call elevations of the vertices of its 3x3 neighbourhood that are
\* inside the grid.
C6_MedianOfNeighbourhood ==
  (pc = "returned" /\ call.op = "SmoothMedian")
  => LET xl == widthSegments + 1
         yl == heightSegments + 1
     IN  \A col \in 0..(xl - 1), row \in 0..(yl - 1) :
           g[row * xl + col] = MedianAround(pre, xl, yl, col, row)

\* -------------------------------------------------- SmoothConservative
\* lines 271-281: [min, max] over the accepted neighbours with n && m
RECURSIVE DiagonalExtremes(_, _, _, _, _, _, _)
DiagonalExtremes(gr, xl, yl, i, j, o, mm) ==
  IF o > Len(Offsets) THEN mm
  ELSE LET n == Offsets[o][1]
           m == Offsets[o][2]
           key == (j + n) * xl + i + m
       IN  IF NeighborOk(gr, xl, yl, i, j, n, m) /\ n # 0 /\ m # 0
           THEN DiagonalExtremes(gr, xl, yl, i, j, o + 1,
                  [min |-> IF Lt(gr[key], mm.min) THEN gr[key] ELSE mm.min,
                   max |-> IF Gt(gr[key], mm.max) THEN gr[key] ELSE mm.max])
           ELSE DiagonalExtremes(gr, xl, yl, i, j, o + 1, mm)

\* lines 271-289: heightmap[kk]
ConservativeCell(gr, xl, yl, i, j, multiplier) ==
  LET mm == DiagonalExtremes(gr, xl, yl, i, j, 1,
                             [min |-> Infinity, max |-> NegInfinity])
      halfdiff == Mul(Sub(mm.max, mm.min), Q(1, 2))
      middle == Add(mm.min, halfdiff)
      max == IF IsNumber(multiplier)
             THEN Add(middle, Mul(halfdiff, multiplier)) ELSE mm.max
      min == IF IsNumber(multiplier)
             THEN Sub(middle, Mul(halfdiff, multiplier)) ELSE mm.min
      z == gr[j * xl + i]
  IN  IF Gt(z, max) THEN max ELSE IF Lt(z, min) THEN min ELSE z

SmoothConservative(gr, ws, hs, multiplier) ==
  LET xl == ws + 1
      yl == hs + 1
  IN  [k \in DOMAIN gr |->
         ConservativeCell(gr, xl, yl, k % xl, k \div xl, multiplier)]

CallSmoothConservative ==
  /\ pc = "ready"
  /\ \E multiplier \in {undefined} \cup {Num(k) : k \in 0..MaxMultiplier} :
       /\ g' = SmoothConservative(g, widthSegments, heightSegments, multiplier)
       /\ call' = [op |-> "SmoothConservative", multiplier |-> multiplier]
  /\ pre' = g
  /\ pc' = "returned"
  /\ UNCHANGED <<widthSegments, heightSegments, mid>>

NextConservative == CallSmoothConservative

SpecConservative == Init /\ [][NextConservative]_vars

\* the diagonal neighbours of (col, row) inside the grid
Diagonals(xl, yl, col, row) ==
  { cr \in Around(xl, yl, col, row) : cr[1] # col /\ cr[2] # row }

\* C9: SmoothConservative leaves a vertex with no diagonal neighbour inside
\* the grid at its pre-call elevation, with or without a multiplier.
C9_NoDiagonalIsIdentity ==
  (pc = "returned" /\ call.op = "SmoothConservative")
  => LET xl == widthSegments + 1
         yl == heightSegments + 1
     IN  \A col \in 0..(xl - 1), row \in 0..(yl - 1) :
           Diagonals(xl, yl, col, row) = {}
             => g[row * xl + col] = pre[row * xl + col]


\* --------------------------------------------------------------- Edges
\* g[k].z = max(g[k].z, (peak - g[k].z) * multiplier + g[k].z), with max
\* Math.max when direction is true and Math.min when it is false
PushCell(z, peak, multiplier, direction) ==
  LET target == Add(Mul(Sub(peak, z), multiplier), z)
  IN  IF direction THEN MathMax(z, target) ELSE MathMin(z, target)

\* lines 74-75: Math.floor(distance / (extent / segments)) || 1
NumSegments(distance, extent, segments) ==
  OrOne(MathFloor(Div(distance, Div(extent, Num(segments)))))[1]

\* EdgeEnabled with the flags ignored
EdgeEnabledAlways(edges, edge) == TRUE

\* lines 82-84, 90, 93, 103, 106: edges.top, edges.bottom, edges.left,
\* edges.right, all true when no edges object is passed
EdgeEnabled(edges, edge) ==
  IF ~edges.given THEN TRUE
  ELSE CASE edge = "top" -> edges.top
         [] edge = "bottom" -> edges.bottom
         [] edge = "left" -> edges.left
         [] edge = "right" -> edges.right

\* lines 85-97: the vertices the first pair of loops addresses, in order
RowPass(xl, hs, numYSegments, easing) ==
  [t \in 1..(2 * xl * numYSegments) |->
     LET s == (t - 1) \div 2
         i == s \div numYSegments
         j == s % numYSegments
     IN  [multiplier |-> ApplyEasing(easing, Sub(Num(1), Q(j, numYSegments))),
          k |-> IF t % 2 = 1 THEN j * xl + i ELSE (hs - j) * xl + i,
          edge |-> IF t % 2 = 1 THEN "top" ELSE "bottom"]]

\* lines 98-110: the vertices the second pair of loops addresses, in order
ColumnPass(xl, yl, ws, hs, numXSegments, easing) ==
  [t \in 1..(2 * yl * numXSegments) |->
     LET s == (t - 1) \div 2
         i == s \div numXSegments
         j == s % numXSegments
     IN  [multiplier |-> ApplyEasing(easing, Sub(Num(1), Q(j, numXSegments))),
          k |-> IF t % 2 = 1 THEN i * xl + j ELSE (hs - i) * xl + (ws - j),
          edge |-> IF t % 2 = 1 THEN "left" ELSE "right"]]

\* the loops' assignments one after another; reading g[k].z of a key outside
\* the array throws a TypeError and ends the call
RECURSIVE PushAll(_, _, _, _, _, _)
PushAll(gr, touches, t, peak, direction, edges) ==
  IF t > Len(touches) THEN [g |-> gr, thrown |-> FALSE]
  ELSE LET x == touches[t]
       IN  IF ~EdgeEnabled(edges, x.edge)
           THEN PushAll(gr, touches, t + 1, peak, direction, edges)
           ELSE IF x.k \notin DOMAIN gr THEN [g |-> gr, thrown |-> TRUE]
           ELSE PushAll([gr EXCEPT ![x.k] =
                           PushCell(gr[x.k], peak, x.multiplier, direction)],
                        touches, t + 1, peak, direction, edges)

EdgeTouches(ws, hs, a) ==
  LET easing == EasingOr(a.easing, "EaseInOut")
  IN  RowPass(ws + 1, hs, NumSegments(a.distance, a.height, hs), easing)
      \o ColumnPass(ws + 1, hs + 1, ws, hs,
                    NumSegments(a.distance, a.width, ws), easing)

\* lines 74-110: the grid after the four edges' loops
EdgesPush(gr, ws, hs, a) ==
  PushAll(gr, EdgeTouches(ws, hs, a), 1,
          IF a.direction THEN a.maxHeight ELSE a.minHeight,
          a.direction, a.edges)

\* lines 111-116: the options of the closing applyTerrainClamp
EdgesClampOptions(a) ==
  [maxHeight |-> a.maxHeight, minHeight |-> a.minHeight,
   stretch |-> TRUE, easing |-> "Linear"]

EdgesArgs ==
  {[given |-> FALSE, top |-> FALSE, bottom |-> FALSE,
    left |-> FALSE, right |-> FALSE]}
  \cup [given : {TRUE}, top : BOOLEAN, bottom : BOOLEAN,
        left : BOOLEAN, right : BOOLEAN]

Extents == {Num(x) : x \in 1..MaxExtent}
Distances == {Num(d) : d \in 0..MaxDistance}

CallEdges ==
  /\ pc = "ready"
  /\ \E direction \in BOOLEAN, distance \in Distances, width \in Extents,
        height \in Extents, easing \in {"undefined", "Linear"},
        edges \in EdgesArgs :
       LET a == [direction |-> direction, distance |-> distance,
                 width |-> width, height |-> height, easing |-> easing,
                 edges |-> edges,
                 maxHeight |-> Num(MaxHeight), minHeight |-> Num(0)]
       IN  \E pushed \in {EdgesPush(g, widthSegments, heightSegments, a)} :
             /\ call' = [op |-> "Edges", args |-> a]
             /\ mid' = pushed.g
             /\ IF pushed.thrown
                THEN g' = pushed.g /\ pc' = "thrown"
                ELSE /\ g' = applyTerrainClamp(pushed.g, EdgesClampOptions(a))
                     /\ pc' = "returned"
  /\ pre' = g
  /\ UNCHANGED <<widthSegments, heightSegments>>

\* --------------------------------------------------------- RadialEdges
RECURSIVE ISqrtIn(_, _, _)
ISqrtIn(v, lo, hi) ==
  IF lo >= hi THEN lo
  ELSE LET h == (lo + hi + 1) \div 2
       IN  IF h * h <= v THEN ISqrtIn(v, h, hi) ELSE ISqrtIn(v, lo, h - 1)

\* Math.sqrt, rounded down to a multiple of 1/SqrtScale (exact on the
\* squares of such multiples)
MathSqrt(x) ==
  IF IsNaN(x) \/ Lt(x, Num(0)) THEN NaN
  ELSE IF ~IsFinite(x) THEN x
  ELSE LET v == (x[1] * SqrtScale * SqrtScale) \div x[2]
       IN  Q(ISqrtIn(v, 0, IF v > 40000 THEN 40000 ELSE v), SqrtScale)

\* lines 149-155: the locals of RadialEdges
RadialLocals(ws, hs, a) ==
  [xl2 |-> Mul(Num(ws + 1), Q(1, 2)),
   yl2 |-> Mul(Num(hs + 1), Q(1, 2)),
   xSegmentSize |-> Div(a.width, Num(ws)),
   ySegmentSize |-> Div(a.height, Num(hs)),
   edgeRadius |-> Sub(Mul(MathMin(a.width, a.height), Q(1, 2)), a.distance)]

\* line 160: vertexDistance of vertex (i, j)
VertexDistance(c, distance, i, j) ==
  LET dx == Sub(c.xl2, Num(i))
      dy == Sub(c.yl2, Num(j))
  IN  MathMin(c.edgeRadius,
        Sub(MathSqrt(Add(Mul(Mul(Mul(dx, c.xSegmentSize), dx), c.xSegmentSize),
                         Mul(Mul(Mul(dy, c.ySegmentSize), dy), c.ySegmentSize))),
            distance))

\* the number of rows j with j < yl2
HalfRows(hs) == (hs + 2) \div 2

\* lines 157-168, from the t-th pass of the inner loop's body on
RECURSIVE RadialPush(_, _, _, _, _)
RadialPush(gr, ws, hs, a, t) ==
  IF t >= (ws + 1) * HalfRows(hs) THEN gr
  ELSE LET i == t \div HalfRows(hs)
           j == t % HalfRows(hs)
           c == RadialLocals(ws, hs, a)
           peak == IF a.direction THEN a.maxHeight ELSE a.minHeight
           vertexDistance == VertexDistance(c, a.distance, i, j)
           multiplier == ApplyEasing(a.easing, Div(vertexDistance, c.edgeRadius))
           k == j * (ws + 1) + i
           k2 == (hs - j) * (ws + 1) + i
           g1 == [gr EXCEPT ![k] = PushCell(gr[k], peak, multiplier, a.direction)]
           g2 == [g1 EXCEPT ![k2] = PushCell(g1[k2], peak, multiplier, a.direction)]
       IN  IF Lt(vertexDistance, Num(0)) THEN RadialPush(gr, ws, hs, a, t + 1)
           ELSE RadialPush(g2, ws, hs, a, t + 1)

RadialEdges(gr, ws, hs, a) == RadialPush(gr, ws, hs, a, 0)

CallRadialEdges ==
  /\ pc = "ready"
  /\ \E direction \in BOOLEAN, distance \in Distances, width \in Extents,
        height \in Extents, easing \in {"Linear", "EaseInOut"} :
       LET a == [direction |-> direction, distance |-> distance,
                 width |-> width, height |-> height, easing |-> easing,
                 maxHeight |-> Num(MaxHeight), minHeight |-> Num(0)]
       IN  /\ call' = [op |-> "RadialEdges", args |-> a]
           /\ g' = RadialEdges(g, widthSegments, heightSegments, a)
  /\ pre' = g
  /\ pc' = "returned"
  /\ UNCHANGED <<widthSegments, heightSegments, mid>>

\* the grids in which at most one vertex differs from the rest
InitEdges ==
  /\ Init
  /\ \E c \in DOMAIN g : \A k \in DOMAIN g \ {c}, k2 \in DOMAIN g \ {c} :
       g[k] = g[k2]

NextEdges == CallEdges \/ CallRadialEdges

SpecEdges == InitEdges /\ [][NextEdges]_vars

\* ------------------------------------- claims on Edges and RadialEdges
\* the keys the loops of an enabled edge address
EdgesAffected(gr, ws, hs, a) ==
  LET touches == EdgeTouches(ws, hs, a)
  IN  {touches[t].k : t \in {u \in DOMAIN touches :
                               EdgeEnabled(a.edges, touches[u].edge)}}
      \cap DOMAIN gr

\* the keys of the vertices RadialEdges does not skip, with their mirrors
RadialAffected(ws, hs, a) ==
  LET c == RadialLocals(ws, hs, a)
      reached == {ij \in (0..ws) \X (0..(HalfRows(hs) - 1)) :
                    ~Lt(VertexDistance(c, a.distance, ij[1], ij[2]), Num(0))}
  IN  {ij[2] * (ws + 1) + ij[1] : ij \in reached}
      \cup {(hs - ij[2]) * (ws + 1) + ij[1] : ij \in reached}

\* C7: when Edges or RadialEdges returns, every vertex it affected is no
\* lower than before the call if direction is true, and no higher than
\* before the call if direction is false.
C7_MonotonicPush ==
  (pc = "returned" /\ call.op \in {"Edges", "RadialEdges"})
  => LET affected ==
           IF call.op = "Edges"
           THEN EdgesAffected(pre, widthSegments, heightSegments, call.args)
           ELSE RadialAffected(widthSegments, heightSegments, call.args)
     IN  \A k \in affected :
           IF call.args.direction THEN Ge(g[k], pre[k]) ELSE Le(g[k], pre[k])

\* the keys only the loops of edges whose flag is false address
DisabledOnly(gr, ws, hs, a) ==
  LET touches == EdgeTouches(ws, hs, a)
  IN  ({touches[t].k : t \in DOMAIN touches} \cap DOMAIN gr)
      \ EdgesAffected(gr, ws, hs, a)

NoEdgeEnabled(edges) ==
  edges.given /\ ~edges.top /\ ~edges.bottom /\ ~edges.left /\ ~edges.right

\* C8 as claimed: when Edges returns, every vertex that lies only in the
\* bands of edges whose flag is false has the elevation it had before the
\* call, and with all four flags false the whole grid is unchanged.
C8_DisabledEdgesUnchanged ==
  (pc = "returned" /\ call.op = "Edges")
  => /\ \A k \in DisabledOnly(pre, widthSegments, heightSegments, call.args) :
          g[k] = pre[k]
     /\ NoEdgeEnabled(call.args.edges) => g = pre

\* C8 as amended: the loops of Edges leave every vertex that lies only in
\* the bands of edges whose flag is false at its pre-call elevation, so the
\* closing applyTerrainClamp receives it unchanged; the grid Edges returns is
\* that renormalisation, and with all four flags false it is
\* applyTerrainClamp of the pre-call grid.
C8_DisabledEdgesReachClampUnchanged ==
  (pc = "returned" /\ call.op = "Edges")
  => /\ \A k \in DisabledOnly(pre, widthSegments, heightSegments, call.args) :
          mid[k] = pre[k]
     /\ NoEdgeEnabled(call.args.edges)
          => g = applyTerrainClamp(pre, EdgesClampOptions(call.args))

\* a call with the top edge off and the bottom edge on that moved some
\* vertex; a vertex in disabled bands only, which its loop would have moved,
\* reached the renormalisation unchanged and was moved by it
C8_Witness ==
  /\ pc = "returned"
  /\ call.op = "Edges"
  /\ call.args.edges.given
  /\ ~call.args.edges.top
  /\ call.args.edges.bottom
  /\ mid # pre
  /\ g # pre
  /\ \E k \in DisabledOnly(pre, widthSegments, heightSegments, call.args) :
       /\ IF call.args.direction THEN Lt(pre[k], call.args.maxHeight)
          ELSE Gt(pre[k], call.args.minHeight)
       /\ mid[k] = pre[k]
       /\ g[k] # pre[k]

=============================================================================
